---- MODULE Spec2Model ----
(***************************************************************************)
(* A model of src/smart.c (Rufus: ATA passthrough over USB bridges and the *)
(* HDD vs. flash drive score).                                             *)
(*                                                                         *)
(* The file has no state that outlives a call, so the variables hold one   *)
(* call frame per component: the inputs of the call, the position of the   *)
(* call and what it produced.  Bytes are naturals in 0..255, C arrays are  *)
(* functions indexed from 0 as in the source, C strings are sequences of   *)
(* ASCII codes (the terminating NUL is position Len(s), counted from 0).   *)
(***************************************************************************)
EXTENDS Integers, Sequences, FiniteSets, TLC

VARIABLES
    resolver,   \* a call of GetAtaDirection
    transport,  \* a call of ScsiPassthroughDirect
    encoder,    \* calls of the five pt[].fn encoders on one command
    identify,   \* a call of Identify (and what its caller has seen so far)
    scorer      \* a call of IsHDD

vars == <<resolver, transport, encoder, identify, scorer>>

\* A component that is not exercised by the specification at hand.
Idle == [pc |-> "idle"]

(***************************************************************************)
(* Constants of smart.h / the Windows SDK (the headers are not part of     *)
(* smart.c; the values are those of the ATA, SAT and Windows definitions). *)
(***************************************************************************)
ATA_DATA_SET_MANAGEMENT == 6
ATA_READ_LOG_EXT == 47
ATA_CHECK_POWER_MODE == 229
ATA_IDENTIFY_DEVICE == 236
ATA_IDENTIFY_PACKET_DEVICE == 161
ATA_SMART_CMD == 176
ATA_SMART_READ_VALUES == 208
ATA_SMART_WRITE_LOG_SECTOR == 214
ATA_SMART_STATUS == 218

SAT_ATA_PASSTHROUGH_12 == 161
USB_JMICRON_ATA_PASSTHROUGH == 223
USB_SUNPLUS_ATA_PASSTHROUGH == 248
USB_CYPRESS_ATA_PASSTHROUGH == 36

SCSI_IOCTL_DATA_OUT == 0
SCSI_IOCTL_DATA_IN == 1
SCSI_IOCTL_DATA_UNSPECIFIED == 2
ATA_PASSTHROUGH_DATA_OUT == SCSI_IOCTL_DATA_OUT
ATA_PASSTHROUGH_DATA_IN == SCSI_IOCTL_DATA_IN
ATA_PASSTHROUGH_DATA_NONE == SCSI_IOCTL_DATA_UNSPECIFIED

SECTOR_SIZE_SHIFT_BIT == 9

SPT_SUCCESS == 0
SPT_ERROR_CDB_LENGTH == -1
SPT_ERROR_BUFFER == -2
SPT_ERROR_DIRECTION == -3
SPT_ERROR_EXTENDED_CDB == -4
SPT_ERROR_CDB_OPCODE == -5
SPT_ERROR_TIMEOUT == -6
SPT_ERROR_INVALID_PARAMETER == -7
SPT_ERROR_UNKNOWN_ERROR == -99

ERROR_SUCCESS == 0
ERROR_ACCESS_DENIED == 5
ERROR_INVALID_PARAMETER == 87
ERROR_SEM_TIMEOUT == 121

DRIVE_REMOVABLE == 2
DRIVE_FIXED == 3

Byte == 0..255

(***************************************************************************)
(* Integer helpers for the C operators used on bytes.                      *)
(***************************************************************************)
RECURSIVE Pow2(_)
Pow2(n) == IF n = 0 THEN 1 ELSE 2 * Pow2(n - 1)

\* a << n and a >> n on unsigned values
Shl(a, n) == a * Pow2(n)
Shr(a, n) == a \div Pow2(n)

\* (uint8_t)x
U8(x) == x % 256

\* a | b
RECURSIVE BitOr(_, _)
BitOr(a, b) ==
    IF a = 0 THEN b
    ELSE IF b = 0 THEN a
    ELSE (IF (a % 2 = 1) \/ (b % 2 = 1) THEN 1 ELSE 0)
         + 2 * BitOr(a \div 2, b \div 2)

(***************************************************************************)
(* GetAtaDirection (smart.c:40-60)                                         *)
(***************************************************************************)
GetAtaDirection(AtaCmd, Features) ==
    LET smart_out == (AtaCmd = ATA_SMART_CMD)
                     /\ ((Features = ATA_SMART_STATUS)
                         \/ (Features = ATA_SMART_WRITE_LOG_SECTOR))
    IN  CASE AtaCmd \in {ATA_IDENTIFY_DEVICE, ATA_READ_LOG_EXT} ->
                ATA_PASSTHROUGH_DATA_IN
          [] AtaCmd = ATA_SMART_CMD ->
                IF ~smart_out THEN ATA_PASSTHROUGH_DATA_IN
                              ELSE ATA_PASSTHROUGH_DATA_OUT   \* fall through
          [] AtaCmd = ATA_DATA_SET_MANAGEMENT -> ATA_PASSTHROUGH_DATA_OUT
          [] OTHER -> ATA_PASSTHROUGH_DATA_NONE

\* Every uint8_t pair is a possible argument.
InitResolver ==
    /\ resolver \in [pc : {"call"}, AtaCmd : Byte, Features : Byte, ret : {-1}]
    /\ transport = Idle /\ encoder = Idle /\ identify = Idle /\ scorer = Idle

ResolverCall ==
    /\ resolver.pc = "call"
    /\ resolver' = [resolver EXCEPT
                        !.pc = "done",
                        !.ret = GetAtaDirection(resolver.AtaCmd, resolver.Features)]
    /\ UNCHANGED <<transport, encoder, identify, scorer>>

NextResolver == ResolverCall

SpecResolver == InitResolver /\ [][NextResolver]_vars

\* C5: GetAtaDirection is total and is the table: IDENTIFY_DEVICE,
\* IDENTIFY_PACKET_DEVICE and READ_LOG_EXT give DataIn; SMART gives DataOut for
\* features SMART_STATUS or SMART_WRITE_LOG_SECTOR and DataIn otherwise;
\* DATA_SET_MANAGEMENT gives DataOut; every other opcode gives None.
C5_DirectionTable ==
    resolver.pc = "done" =>
        LET op == resolver.AtaCmd
            ft == resolver.Features
        IN  resolver.ret =
              (IF op \in {ATA_IDENTIFY_DEVICE, ATA_IDENTIFY_PACKET_DEVICE,
                          ATA_READ_LOG_EXT}
                 THEN ATA_PASSTHROUGH_DATA_IN
               ELSE IF op = ATA_SMART_CMD
                 THEN (IF ft \in {ATA_SMART_STATUS, ATA_SMART_WRITE_LOG_SECTOR}
                         THEN ATA_PASSTHROUGH_DATA_OUT
                         ELSE ATA_PASSTHROUGH_DATA_IN)
               ELSE IF op = ATA_DATA_SET_MANAGEMENT
                 THEN ATA_PASSTHROUGH_DATA_OUT
               ELSE ATA_PASSTHROUGH_DATA_NONE)

(***************************************************************************)
(* ScsiPassthroughDirect (smart.c:103-164)                                 *)
(***************************************************************************)
\* sizeof(sptdwb.sptd.Cdb)
CDB_SIZE == 16

\* What DeviceIoControl can leave behind: its BOOL result, the ScsiStatus byte
\* written into the request and the thread's last error.
OsOutcome(r, ScsiStatus, err) == [r |-> r, ScsiStatus |-> ScsiStatus, err |-> err]

\* The sanity checks with the buffer check moved in front of the CDB length
\* check.
SanityChecks_BufferFirst(Cdb, CdbLen, Direction, DataBuffer, BufLen) ==
    IF (DataBuffer % 16 # 0) \/ (BufLen > 65535) THEN SPT_ERROR_BUFFER
    ELSE IF (CdbLen = 0) \/ (CdbLen > CDB_SIZE) THEN SPT_ERROR_CDB_LENGTH
    ELSE IF Direction > SCSI_IOCTL_DATA_UNSPECIFIED THEN SPT_ERROR_DIRECTION
    ELSE IF (Cdb[0] = 126) \/ (Cdb[0] = 127) THEN SPT_ERROR_EXTENDED_CDB
    ELSE IF (Cdb[0] >= 192) /\ (Cdb[0] # USB_JMICRON_ATA_PASSTHROUGH)
            /\ (Cdb[0] # USB_SUNPLUS_ATA_PASSTHROUGH) THEN SPT_ERROR_CDB_OPCODE
    ELSE SPT_SUCCESS

\* smart.c:110-127; SPT_SUCCESS stands for "every check passed".
SanityChecks(Cdb, CdbLen, Direction, DataBuffer, BufLen) ==
    IF (CdbLen = 0) \/ (CdbLen > CDB_SIZE) THEN SPT_ERROR_CDB_LENGTH
    ELSE IF (DataBuffer % 16 # 0) \/ (BufLen > 65535) THEN SPT_ERROR_BUFFER
    ELSE IF Direction > SCSI_IOCTL_DATA_UNSPECIFIED THEN SPT_ERROR_DIRECTION
    ELSE IF (Cdb[0] = 126) \/ (Cdb[0] = 127) THEN SPT_ERROR_EXTENDED_CDB
    ELSE IF (Cdb[0] >= 192) /\ (Cdb[0] # USB_JMICRON_ATA_PASSTHROUGH)
            /\ (Cdb[0] # USB_SUNPLUS_ATA_PASSTHROUGH) THEN SPT_ERROR_CDB_OPCODE
    ELSE SPT_SUCCESS

\* The result mapping with the OS failure looked at before the SCSI status.
IoctlResult_ErrFirst(os) ==
    IF os.r /\ (os.ScsiStatus = 0) THEN SPT_SUCCESS
    ELSE IF ~os.r THEN
        (CASE os.err = ERROR_SEM_TIMEOUT -> SPT_ERROR_TIMEOUT
           [] os.err = ERROR_INVALID_PARAMETER -> SPT_ERROR_INVALID_PARAMETER
           [] OTHER -> SPT_ERROR_UNKNOWN_ERROR)
    ELSE os.ScsiStatus

\* smart.c:143-162
IoctlResult(os) ==
    IF os.r /\ (os.ScsiStatus = 0) THEN SPT_SUCCESS
    ELSE IF os.ScsiStatus # 0 THEN os.ScsiStatus
    ELSE CASE os.err = ERROR_SEM_TIMEOUT -> SPT_ERROR_TIMEOUT
           [] os.err = ERROR_INVALID_PARAMETER -> SPT_ERROR_INVALID_PARAMETER
           [] OTHER -> SPT_ERROR_UNKNOWN_ERROR

\* The request as filled in at smart.c:129-141 (the fields that depend on the
\* arguments); sptd.Cdb is zeroed and receives the first CdbLen bytes of Cdb.
FillSptd(Cdb, CdbLen, Direction, DataBuffer, BufLen) ==
    [ CdbLength |-> U8(CdbLen),
      DataIn |-> Direction,
      DataTransferLength |-> BufLen % 65536,
      DataBuffer |-> DataBuffer,
      Cdb |-> [k \in 0..(CDB_SIZE - 1) |-> IF k < CdbLen THEN Cdb[k] ELSE 0] ]

NoSptd == [ CdbLength |-> 0 ]

\* The whole function: ret is the value returned, ioctl the number of
\* DeviceIoControl calls made, sptd the request submitted (if any).
ScsiPassthroughDirect(Cdb, CdbLen, Direction, DataBuffer, BufLen, os) ==
    LET chk == SanityChecks(Cdb, CdbLen, Direction, DataBuffer, BufLen)
    IN  IF chk # SPT_SUCCESS
          THEN [ret |-> chk, ioctl |-> 0, sptd |-> NoSptd]
          ELSE [ret |-> IoctlResult(os), ioctl |-> 1,
                sptd |-> FillSptd(Cdb, CdbLen, Direction, DataBuffer, BufLen)]

\* Arguments and OS behaviours the transport is exercised with.
TransportCdbLens == {0, 1, 12, 14, 16, 17}
TransportOpcodes == {0, 36, 126, 127, 161, 191, 192, 193, 223, 248, 255}
TransportAddresses == {4096, 4097, 4104, 4112}
TransportBufLens == {0, 512, 65535, 65536}
TransportDirections == {0, 1, 2, 3, 255}
ScsiStatuses == {0, 2, 8, 255}
OsErrors == {ERROR_SUCCESS, ERROR_ACCESS_DENIED, ERROR_INVALID_PARAMETER,
             ERROR_SEM_TIMEOUT}
OsOutcomes == { OsOutcome(r, st, e) : r \in BOOLEAN, st \in ScsiStatuses,
                                      e \in OsErrors }
NoOs == OsOutcome(FALSE, 0, ERROR_SUCCESS)

InitTransport ==
    /\ \E op \in TransportOpcodes, len \in TransportCdbLens,
          addr \in TransportAddresses, blen \in TransportBufLens,
          dir \in TransportDirections :
          transport = [ pc |-> "call",
                        Cdb |-> [k \in 0..(CDB_SIZE - 1) |-> IF k = 0 THEN op ELSE 0],
                        CdbLen |-> len, Direction |-> dir,
                        DataBuffer |-> addr, BufLen |-> blen,
                        os |-> NoOs, ret |-> 0, ioctl |-> 0 ]
    /\ resolver = Idle /\ encoder = Idle /\ identify = Idle /\ scorer = Idle

TransportCall ==
    /\ transport.pc = "call"
    /\ \E os \in OsOutcomes :
          LET res == ScsiPassthroughDirect(transport.Cdb, transport.CdbLen,
                        transport.Direction, transport.DataBuffer,
                        transport.BufLen, os)
          IN  transport' = [transport EXCEPT
                                !.pc = "done",
                                !.ret = res.ret,
                                !.ioctl = res.ioctl,
                                !.os = IF res.ioctl = 1 THEN os ELSE NoOs]
    /\ UNCHANGED <<resolver, encoder, identify, scorer>>

NextTransport == TransportCall

SpecTransport == InitTransport /\ [][NextTransport]_vars

\* The error of the first failing check in the order of the claim, 0 if none.
C3_FirstFailing(t) ==
    IF (t.CdbLen = 0) \/ (t.CdbLen > 16) THEN SPT_ERROR_CDB_LENGTH
    ELSE IF (t.DataBuffer % 16 # 0) \/ (t.BufLen > 65535) THEN SPT_ERROR_BUFFER
    ELSE IF t.Direction \notin {SCSI_IOCTL_DATA_OUT, SCSI_IOCTL_DATA_IN,
                                SCSI_IOCTL_DATA_UNSPECIFIED} THEN SPT_ERROR_DIRECTION
    ELSE IF t.Cdb[0] \in {126, 127} THEN SPT_ERROR_EXTENDED_CDB
    ELSE IF (t.Cdb[0] >= 192)
            /\ (t.Cdb[0] \notin {USB_JMICRON_ATA_PASSTHROUGH,
                                 USB_SUNPLUS_ATA_PASSTHROUGH}) THEN SPT_ERROR_CDB_OPCODE
    ELSE 0

C4_OutcomeMapping ==
    (transport.pc = "done" /\ transport.ioctl = 1) =>
        LET os == transport.os
        IN  /\ (transport.ret = SPT_SUCCESS) <=> (os.r /\ os.ScsiStatus = 0)
            /\ (os.ScsiStatus # 0 =>
                    transport.ret = os.ScsiStatus /\ transport.ret \in 1..255)
            /\ ((~os.r /\ os.ScsiStatus = 0) =>
                    /\ transport.ret \in {SPT_ERROR_TIMEOUT,
                                          SPT_ERROR_INVALID_PARAMETER,
                                          SPT_ERROR_UNKNOWN_ERROR}
                    /\ (os.err = ERROR_SEM_TIMEOUT =>
                            transport.ret = SPT_ERROR_TIMEOUT)
                    /\ (os.err = ERROR_INVALID_PARAMETER =>
                            transport.ret = SPT_ERROR_INVALID_PARAMETER)
                    /\ (os.err \notin {ERROR_SEM_TIMEOUT, ERROR_INVALID_PARAMETER} =>
                            transport.ret = SPT_ERROR_UNKNOWN_ERROR))

\* The OS call failed with a timeout and the device still left a SCSI status.
C4_Witness ==
    /\ transport.pc = "done"
    /\ transport.ioctl = 1
    /\ ~transport.os.r
    /\ transport.os.err = ERROR_SEM_TIMEOUT
    /\ transport.os.ScsiStatus = 2
    /\ transport.ret = 2

(***************************************************************************)
(* The bridge encoders (smart.c:169-317)                                   *)
(***************************************************************************)
\* What an encoder did: the value it returned, whether it called
\* ScsiPassthroughDirect and with which CDB (the CdbLen bytes handed over),
\* direction and buffer length, and the number of DeviceIoControl calls.
NotSent(ret) ==
    [ done |-> TRUE, ret |-> ret, transport |-> FALSE, Cdb |-> <<>>, CdbLen |-> 0,
      Direction |-> 0, BufLen |-> 0, ioctl |-> 0 ]

NotCalled ==
    [ done |-> FALSE, ret |-> 0, transport |-> FALSE, Cdb |-> <<>>, CdbLen |-> 0,
      Direction |-> 0, BufLen |-> 0, ioctl |-> 0 ]

\* return ScsiPassthroughDirect(hPhysical, Cdb, CdbLen, Direction, ...)
Send(Cdb, CdbLen, Direction, DataBuffer, BufLen, os) ==
    LET res == ScsiPassthroughDirect(Cdb, CdbLen, Direction, DataBuffer, BufLen, os)
    IN  [ done |-> TRUE, ret |-> res.ret, transport |-> TRUE,
          Cdb |-> [k \in 0..(CdbLen - 1) |-> Cdb[k]], CdbLen |-> CdbLen,
          Direction |-> Direction, BufLen |-> BufLen, ioctl |-> res.ioctl ]

\* The SAT CDB with the protocol taken from the direction alone (the test
\* of BufLen left out).
SatCdb_NoLenTest(Command, BufLen) ==
    LET Direction == GetAtaDirection(Command.AtaCmd, Command.Features)
        protocol == IF Direction = ATA_PASSTHROUGH_DATA_IN THEN 4
                    ELSE IF Direction = ATA_PASSTHROUGH_DATA_OUT THEN 5 ELSE 3
        t_length == IF Direction \in {ATA_PASSTHROUGH_DATA_IN, ATA_PASSTHROUGH_DATA_OUT}
                    THEN 2 ELSE 0
        t_dir == IF Direction = ATA_PASSTHROUGH_DATA_OUT THEN 0 ELSE 1
    IN  [k \in 0..11 |->
            CASE k = 0 -> SAT_ATA_PASSTHROUGH_12
              [] k = 1 -> U8(BitOr(Shl(protocol, 1), 0))
              [] k = 2 -> U8(BitOr(BitOr(BitOr(Shl(0, 5), Shl(t_dir, 3)), Shl(1, 2)),
                                   t_length))
              [] k = 3 -> Command.Features
              [] k = 4 -> U8(Shr(BufLen, SECTOR_SIZE_SHIFT_BIT))
              [] k = 5 -> Command.Lba_low
              [] k = 6 -> Command.Lba_mid
              [] k = 7 -> Command.Lba_high
              [] k = 8 -> Command.Device
              [] k = 9 -> Command.AtaCmd
              [] OTHER -> 0]

\* smart.c:171-212: the CDB SatAtaPassthrough builds once BufLen has passed
\* the multiple-of-512 test.
SatCdb(Command, BufLen) ==
    LET extend == 0
        ck_cond == 0
        byte_block == 1
        Direction == GetAtaDirection(Command.AtaCmd, Command.Features)
        data == BufLen # 0
        protocol == IF data /\ Direction = ATA_PASSTHROUGH_DATA_IN THEN 4
                    ELSE IF data /\ Direction = ATA_PASSTHROUGH_DATA_OUT THEN 5
                    ELSE 3
        t_length == IF data /\ Direction \in {ATA_PASSTHROUGH_DATA_IN,
                                               ATA_PASSTHROUGH_DATA_OUT}
                    THEN 2 ELSE 0
        t_dir == IF data /\ Direction = ATA_PASSTHROUGH_DATA_OUT THEN 0 ELSE 1
    IN  [k \in 0..11 |->
            CASE k = 0 -> SAT_ATA_PASSTHROUGH_12
              [] k = 1 -> U8(BitOr(Shl(protocol, 1), extend))
              [] k = 2 -> U8(BitOr(BitOr(BitOr(Shl(ck_cond, 5), Shl(t_dir, 3)),
                                         Shl(byte_block, 2)), t_length))
              [] k = 3 -> Command.Features
              [] k = 4 -> U8(Shr(BufLen, SECTOR_SIZE_SHIFT_BIT))
              [] k = 5 -> Command.Lba_low
              [] k = 6 -> Command.Lba_mid
              [] k = 7 -> Command.Lba_high
              [] k = 8 -> Command.Device
              [] k = 9 -> Command.AtaCmd
              [] OTHER -> 0]

\* smart.c:169-215
SatAtaPassthrough(Command, DataBuffer, BufLen, os) ==
    IF BufLen % 512 # 0
      THEN NotSent(SPT_ERROR_BUFFER)
      ELSE Send(SatCdb(Command, BufLen), 12,
                GetAtaDirection(Command.AtaCmd, Command.Features),
                DataBuffer, BufLen, os)

\* The JMicron/Prolific CDB with the mode byte the wrong way round.
JMPLCdb_ModeSwapped(Command, BufLen) ==
    LET Direction == GetAtaDirection(Command.AtaCmd, Command.Features)
    IN  [k \in 0..13 |->
            CASE k = 0 -> USB_JMICRON_ATA_PASSTHROUGH
              [] k = 1 -> IF (BufLen # 0) /\ (Direction = ATA_PASSTHROUGH_DATA_OUT)
                            THEN 16 ELSE 0
              [] k = 3 -> U8(Shr(BufLen, 8))
              [] k = 4 -> U8(BufLen)
              [] k = 5 -> Command.Features
              [] k = 6 -> U8(Shr(BufLen, SECTOR_SIZE_SHIFT_BIT))
              [] k = 7 -> Command.Lba_low
              [] k = 8 -> Command.Lba_mid
              [] k = 9 -> Command.Lba_high
              [] k = 10 -> Command.Device
              [] k = 11 -> Command.AtaCmd
              [] k = 12 -> 6
              [] k = 13 -> 123
              [] OTHER -> 0]

\* smart.c:221-239
JMPLCdb(Command, BufLen) ==
    LET Direction == GetAtaDirection(Command.AtaCmd, Command.Features)
    IN  [k \in 0..13 |->
            CASE k = 0 -> USB_JMICRON_ATA_PASSTHROUGH
              [] k = 1 -> IF (BufLen # 0) /\ (Direction = ATA_PASSTHROUGH_DATA_OUT)
                            THEN 0 ELSE 16
              [] k = 3 -> U8(Shr(BufLen, 8))
              [] k = 4 -> U8(BufLen)
              [] k = 5 -> Command.Features
              [] k = 6 -> U8(Shr(BufLen, SECTOR_SIZE_SHIFT_BIT))
              [] k = 7 -> Command.Lba_low
              [] k = 8 -> Command.Lba_mid
              [] k = 9 -> Command.Lba_high
              [] k = 10 -> Command.Device
              [] k = 11 -> Command.AtaCmd
              [] k = 12 -> 6
              [] k = 13 -> 123
              [] OTHER -> 0]

\* smart.c:218-242
UsbJMPLAtaPassthrough(Command, DataBuffer, BufLen, os, prolific) ==
    Send(JMPLCdb(Command, BufLen), 14 - (IF prolific THEN 2 ELSE 0),
         GetAtaDirection(Command.AtaCmd, Command.Features), DataBuffer, BufLen, os)

\* smart.c:244-247
UsbJmicronAtaPassthrough(Command, DataBuffer, BufLen, os) ==
    UsbJMPLAtaPassthrough(Command, DataBuffer, BufLen, os, FALSE)

\* smart.c:250-253
UsbProlificAtaPassthrough(Command, DataBuffer, BufLen, os) ==
    UsbJMPLAtaPassthrough(Command, DataBuffer, BufLen, os, TRUE)

\* smart.c:256-281
UsbSunPlusAtaPassthrough(Command, DataBuffer, BufLen, os) ==
    LET Direction == GetAtaDirection(Command.AtaCmd, Command.Features)
        Cdb == [k \in 0..11 |->
            CASE k = 0 -> USB_SUNPLUS_ATA_PASSTHROUGH
              [] k = 2 -> 34
              [] k = 3 -> IF BufLen # 0 /\ Direction = ATA_PASSTHROUGH_DATA_IN THEN 16
                          ELSE IF BufLen # 0 /\ Direction = ATA_PASSTHROUGH_DATA_OUT
                            THEN 17
                          ELSE 0
              [] k = 4 -> U8(Shr(BufLen, SECTOR_SIZE_SHIFT_BIT))
              [] k = 5 -> Command.Features
              [] k = 6 -> U8(Shr(BufLen, SECTOR_SIZE_SHIFT_BIT))
              [] k = 7 -> Command.Lba_low
              [] k = 8 -> Command.Lba_mid
              [] k = 9 -> Command.Lba_high
              [] k = 10 -> BitOr(Command.Device, 160)
              [] k = 11 -> Command.AtaCmd
              [] OTHER -> 0]
    IN  Send(Cdb, 12, Direction, DataBuffer, BufLen, os)

\* smart.c:285-308
UsbCypressAtaPassthrough(Command, DataBuffer, BufLen, os) ==
    LET Direction == GetAtaDirection(Command.AtaCmd, Command.Features)
        Cdb == [k \in 0..15 |->
            CASE k = 0 -> USB_CYPRESS_ATA_PASSTHROUGH
              [] k = 1 -> USB_CYPRESS_ATA_PASSTHROUGH
              [] k = 2 -> IF Command.AtaCmd = ATA_IDENTIFY_DEVICE
                             \/ Command.AtaCmd = ATA_IDENTIFY_PACKET_DEVICE
                            THEN Shl(1, 7) ELSE 0
              [] k = 3 -> 255 - Shl(1, 0) - Shl(1, 6)
              [] k = 4 -> 1
              [] k = 6 -> Command.Features
              [] k = 7 -> U8(Shr(BufLen, SECTOR_SIZE_SHIFT_BIT))
              [] k = 8 -> Command.Lba_low
              [] k = 9 -> Command.Lba_mid
              [] k = 10 -> Command.Lba_high
              [] k = 11 -> Command.Device
              [] k = 12 -> Command.AtaCmd
              [] OTHER -> 0]
    IN  Send(Cdb, 16, Direction, DataBuffer, BufLen, os)

\* The table with SAT and JMicron exchanged.
pt_Swapped ==
    << [fn |-> "UsbJmicronAtaPassthrough", type |-> "JMicron"],
       [fn |-> "SatAtaPassthrough", type |-> "SAT"],
       [fn |-> "UsbProlificAtaPassthrough", type |-> "Prolific"],
       [fn |-> "UsbSunPlusAtaPassthrough", type |-> "SunPlus"],
       [fn |-> "UsbCypressAtaPassthrough", type |-> "Cypress"] >>

\* smart.c:311-317: the bridges that are tried, in order (pt[i] of the source
\* is pt[i + 1] here).
pt ==
    << [fn |-> "SatAtaPassthrough", type |-> "SAT"],
       [fn |-> "UsbJmicronAtaPassthrough", type |-> "JMicron"],
       [fn |-> "UsbProlificAtaPassthrough", type |-> "Prolific"],
       [fn |-> "UsbSunPlusAtaPassthrough", type |-> "SunPlus"],
       [fn |-> "UsbCypressAtaPassthrough", type |-> "Cypress"] >>

\* ARRAYSIZE(pt)
ARRAYSIZE_pt == Len(pt)

\* pt[i].fn(hPhysical, Command, DataBuffer, BufLen, Timeout)
CallFn(fn, Command, DataBuffer, BufLen, os) ==
    CASE fn = "SatAtaPassthrough" -> SatAtaPassthrough(Command, DataBuffer, BufLen, os)
      [] fn = "UsbJmicronAtaPassthrough" ->
            UsbJmicronAtaPassthrough(Command, DataBuffer, BufLen, os)
      [] fn = "UsbProlificAtaPassthrough" ->
            UsbProlificAtaPassthrough(Command, DataBuffer, BufLen, os)
      [] fn = "UsbSunPlusAtaPassthrough" ->
            UsbSunPlusAtaPassthrough(Command, DataBuffer, BufLen, os)
      [] fn = "UsbCypressAtaPassthrough" ->
            UsbCypressAtaPassthrough(Command, DataBuffer, BufLen, os)

\* Commands, buffer lengths and OS behaviours the encoders are exercised with.
EncoderAtaCmds == {ATA_IDENTIFY_DEVICE, ATA_IDENTIFY_PACKET_DEVICE, ATA_READ_LOG_EXT,
                   ATA_SMART_CMD, ATA_DATA_SET_MANAGEMENT, ATA_CHECK_POWER_MODE}
EncoderFeatures == {0, ATA_SMART_READ_VALUES, ATA_SMART_WRITE_LOG_SECTOR,
                    ATA_SMART_STATUS}
EncoderCommands ==
    [ AtaCmd : EncoderAtaCmds, Features : EncoderFeatures, Lba_low : {0, 1},
      Lba_mid : {79}, Lba_high : {194}, Device : {0, 16} ]
EncoderBufLens == {0, 256, 512, 513, 1024, 65024, 65535, 65536, 131072}
EncoderOs == { OsOutcome(TRUE, 0, ERROR_SUCCESS), OsOutcome(FALSE, 2, ERROR_SUCCESS) }
\* the address _aligned_malloc(size, 0x10) returns: a multiple of 16
AlignedBuffer == 256 * 16

InitEncoder ==
    /\ \E cmd \in EncoderCommands, blen \in EncoderBufLens :
          encoder = [ pc |-> "probe", Command |-> cmd, DataBuffer |-> AlignedBuffer,
                      BufLen |-> blen, sent |-> [k \in 1..ARRAYSIZE_pt |-> NotCalled] ]
    /\ resolver = Idle /\ transport = Idle /\ identify = Idle /\ scorer = Idle

\* The caller hands the command to one of the encoders it has not tried yet.
EncoderCall ==
    /\ encoder.pc = "probe"
    /\ \E k \in 1..ARRAYSIZE_pt, os \in EncoderOs :
          /\ ~encoder.sent[k].done
          /\ encoder' = [encoder EXCEPT
                !.sent[k] = CallFn(pt[k].fn, encoder.Command, encoder.DataBuffer,
                                   encoder.BufLen, os)]
    /\ UNCHANGED <<resolver, transport, identify, scorer>>

NextEncoder == EncoderCall

SpecEncoder == InitEncoder /\ [][NextEncoder]_vars

\* The index of the bridge of the given type in the table.
BridgeIndex(type) == CHOOSE k \in 1..ARRAYSIZE_pt : pt[k].type = type

\* The parts of the SAT claim that do not involve the protocol field.
C9_Framing(s, cmd, blen) ==
    /\ (blen % 512 # 0 =>
            /\ s.ret = SPT_ERROR_BUFFER
            /\ ~s.transport
            /\ s.ioctl = 0)
    /\ (blen % 512 = 0 =>
            /\ s.transport
            /\ s.CdbLen = 12
            /\ DOMAIN s.Cdb = 0..11
            /\ s.Cdb[0] = 161
            /\ (blen <= 65535 => s.Cdb[4] = blen \div 512)
            /\ s.Cdb[3] = cmd.Features
            /\ s.Cdb[5] = cmd.Lba_low
            /\ s.Cdb[6] = cmd.Lba_mid
            /\ s.Cdb[7] = cmd.Lba_high
            /\ s.Cdb[8] = cmd.Device
            /\ s.Cdb[9] = cmd.AtaCmd)

\* C9 as claimed: SatAtaPassthrough refuses a buffer length that is not a
\* multiple of 512 without calling the transport; otherwise it hands over a
\* 12-byte CDB with opcode 0xA1 whose protocol field (byte 1 >> 1) is 3, 4 or
\* 5 for the directions None, DataIn, DataOut, whose byte 4 is the sector
\* count and whose bytes 3,5..9 are Features, LBA low/mid/high, Device, opcode.
C9_SatCdb_AsClaimed ==
    LET s == encoder.sent[BridgeIndex("SAT")]
    IN  (encoder.pc = "probe" /\ s.done) =>
            /\ C9_Framing(s, encoder.Command, encoder.BufLen)
            /\ (encoder.BufLen % 512 = 0 =>
                    s.Cdb[1] \div 2 =
                        (CASE s.Direction = ATA_PASSTHROUGH_DATA_NONE -> 3
                           [] s.Direction = ATA_PASSTHROUGH_DATA_IN -> 4
                           [] s.Direction = ATA_PASSTHROUGH_DATA_OUT -> 5))

\* C9 as amended: as claimed, except that the protocol field is 3 when the
\* direction is None or the buffer length is 0, and 4 (DataIn) or 5 (DataOut)
\* only when the buffer length is not 0.
C9_SatCdb ==
    LET s == encoder.sent[BridgeIndex("SAT")]
    IN  (encoder.pc = "probe" /\ s.done) =>
            /\ C9_Framing(s, encoder.Command, encoder.BufLen)
            /\ (encoder.BufLen % 512 = 0 =>
                    s.Cdb[1] \div 2 =
                        (IF encoder.BufLen = 0 THEN 3
                         ELSE CASE s.Direction = ATA_PASSTHROUGH_DATA_NONE -> 3
                                [] s.Direction = ATA_PASSTHROUGH_DATA_IN -> 4
                                [] s.Direction = ATA_PASSTHROUGH_DATA_OUT -> 5))

\* SAT has encoded a data-in command with an empty buffer as non-data.
C9_Witness ==
    LET s == encoder.sent[BridgeIndex("SAT")]
    IN  /\ encoder.pc = "probe"
        /\ s.done
        /\ encoder.BufLen = 0
        /\ encoder.Command.AtaCmd = ATA_IDENTIFY_DEVICE
        /\ s.Direction = ATA_PASSTHROUGH_DATA_IN
        /\ s.Cdb[1] = 6

\* What the claim says of one of the two CDBs of the JMicron family.
C10_Shape(s, blen, len) ==
    /\ s.transport
    /\ s.CdbLen = len
    /\ DOMAIN s.Cdb = 0..(len - 1)
    /\ (s.Cdb[1] = 0) <=> (s.Direction = ATA_PASSTHROUGH_DATA_OUT /\ blen # 0)
    /\ s.Cdb[1] \in {0, 16}
    /\ (blen <= 65535 => s.Cdb[3] * 256 + s.Cdb[4] = blen)

IDENTIFY_DEVICE_DATA_SIZE == 512

\* ATA_PASSTHROUGH_CMD Command = {0}; Command.AtaCmd = ATA_IDENTIFY_DEVICE;
IdentifyCommand ==
    [ AtaCmd |-> ATA_IDENTIFY_DEVICE, Features |-> 0, Lba_low |-> 0, Lba_mid |-> 0,
      Lba_high |-> 0, Device |-> 0 ]

\* What the device and the OS can answer to one attempt.
IdentifyOs == { OsOutcome(r, st, e) : r \in BOOLEAN, st \in {0, 2},
                    e \in {ERROR_ACCESS_DENIED, ERROR_INVALID_PARAMETER,
                            ERROR_SEM_TIMEOUT} }

\* The frame of a fresh call; reports is what the caller has seen of the
\* calls that returned: what happened in the call and the value returned.
IdentifyFrame(reports) ==
    [ pc |-> "call", i |-> 0, r |-> 0, idd |-> FALSE, smart |-> FALSE,
      attempts |-> <<>>, results |-> <<>>, log |-> <<>>, ret |-> FALSE,
      reports |-> reports ]

InitIdentify ==
    /\ identify = IdentifyFrame({})
    /\ resolver = Idle /\ transport = Idle /\ encoder = Idle /\ scorer = Idle

\* smart.c:321-332: the locals are set up and the buffer is allocated;
\* _aligned_malloc may fail.
IdentifyEnter ==
    /\ identify.pc = "call"
    /\ \E allocated \in BOOLEAN :
          identify' = IF allocated
                        THEN [identify EXCEPT !.pc = "loop", !.i = 0, !.idd = TRUE]
                        ELSE [identify EXCEPT !.pc = "returned", !.ret = FALSE]
    /\ UNCHANGED <<resolver, transport, encoder, scorer>>

\* smart.c:334-347: one iteration of the loop over pt.
IdentifyProbe ==
    /\ identify.pc = "loop"
    /\ identify.i < ARRAYSIZE_pt
    /\ \E os \in IdentifyOs, SmartCommands \in BOOLEAN :
          LET bridge == pt[identify.i + 1]
              r == CallFn(bridge.fn, IdentifyCommand, AlignedBuffer,
                          IDENTIFY_DEVICE_DATA_SIZE, os).ret
              tried == [identify EXCEPT
                            !.r = r,
                            !.attempts = Append(@, bridge.type),
                            !.results = Append(@, r)]
          IN  identify' =
                IF r = SPT_SUCCESS
                  THEN [tried EXCEPT
                            !.pc = "break",
                            !.smart = SmartCommands,
                            !.log = @ \o << <<"Success using", bridge.type>>,
                                           IF SmartCommands
                                             THEN <<"SMART support detected!">>
                                             ELSE <<"No SMART support">> >>]
                  ELSE [tried EXCEPT
                            !.i = @ + 1,
                            !.log = Append(@, <<"No joy with", bridge.type, r>>)]
    /\ UNCHANGED <<resolver, transport, encoder, scorer>>

\* smart.c:348-352: after the loop.
IdentifyLeave ==
    /\ \/ identify.pc = "break"
       \/ identify.pc = "loop" /\ ~(identify.i < ARRAYSIZE_pt)
    /\ identify' = [identify EXCEPT
                        !.pc = "returned",
                        !.log = IF identify.i >= ARRAYSIZE_pt
                                  THEN Append(@, <<"NO ATA FOR YOU!">>) ELSE @,
                        !.idd = FALSE,
                        !.ret = TRUE]
    /\ UNCHANGED <<resolver, transport, encoder, scorer>>

\* What happened in the call that has just returned.
IdentifyOutcome(f) ==
    IF f.attempts = <<>> THEN "no buffer"
    ELSE IF f.results[Len(f.results)] # SPT_SUCCESS THEN "unknown"
    ELSE IF f.smart THEN "capable"
    ELSE "not capable"

\* The caller takes the returned value and may call Identify again (on this
\* or another device).
IdentifyReturn ==
    /\ identify.pc = "returned"
    /\ identify' = IdentifyFrame(identify.reports \cup
                        { [outcome |-> IdentifyOutcome(identify), ret |-> identify.ret] })
    /\ UNCHANGED <<resolver, transport, encoder, scorer>>

NextIdentify == IdentifyEnter \/ IdentifyProbe \/ IdentifyLeave \/ IdentifyReturn

SpecIdentify == InitIdentify /\ [][NextIdentify]_vars

C1_Order == <<"SAT", "JMicron", "Prolific", "SunPlus", "Cypress">>

\* C1: the encoders are attempted in the order SAT, JMicron, Prolific,
\* SunPlus, Cypress, each at most once; nothing is attempted after the first
\* Success; every other result makes the loop go on to the next encoder; if
\* all fail, exactly 5 attempts were made and exhaustion is signalled.
C1_ProbeSequence ==
    LET n == Len(identify.attempts)
        exhausted == \E k \in 1..Len(identify.log) :
                        identify.log[k] = <<"NO ATA FOR YOU!">>
    IN  /\ n <= 5
        /\ identify.attempts = SubSeq(C1_Order, 1, n)
        /\ Len(identify.results) = n
        /\ \A k \in 1..(n - 1) : identify.results[k] # SPT_SUCCESS
        /\ (identify.pc = "break" => n >= 1 /\ identify.results[n] = SPT_SUCCESS)
        /\ ((identify.pc = "loop" /\ n >= 1) =>
                identify.results[n] # SPT_SUCCESS /\ identify.i = n)
        /\ ((identify.pc = "returned" /\ identify.ret) =>
                \/ n >= 1 /\ identify.results[n] = SPT_SUCCESS /\ ~exhausted
                \/ /\ n = 5
                   /\ \A k \in 1..n : identify.results[k] # SPT_SUCCESS
                   /\ exhausted)

\* Prolific was the first to succeed, after a SCSI error from SAT and a
\* timeout from JMicron.
C1_Witness ==
    /\ identify.pc = "returned"
    /\ identify.attempts = <<"SAT", "JMicron", "Prolific">>
    /\ identify.results = <<2, SPT_ERROR_TIMEOUT, SPT_SUCCESS>>

\* C2: what Identify hands back to its caller tells apart a successful probe
\* with the SMART bit set, a successful probe with the bit clear, and the
\* exhaustion of all five encodings (which is never handed back as the value
\* that stands for "not capable").
C2_OutcomeReported ==
    \A a, b \in identify.reports :
        ( /\ a.outcome \in {"capable", "not capable", "unknown"}
          /\ b.outcome \in {"capable", "not capable", "unknown"}
          /\ a.outcome # b.outcome ) => a.ret # b.ret

(***************************************************************************)
(* IsHDD (smart.c:403-512)                                                 *)
(***************************************************************************)
\* (const char*)NULL; no character code is negative.
NULL == <<-1>>

\* smart.c:417-432; '#' is 35.
manufacturer_str ==
    << [name |-> <<72, 80, 32>>, score |-> 10],                 \* "HP "
       [name |-> <<83, 84, 35>>, score |-> 10],                 \* "ST#"
       [name |-> <<77, 88, 35>>, score |-> 10],                 \* "MX#"
       [name |-> <<87, 68, 67>>, score |-> 10],                 \* "WDC"
       [name |-> <<73, 66, 77>>, score |-> 10],                 \* "IBM"
       [name |-> <<83, 84, 77, 35>>, score |-> 10],             \* "STM#"
       [name |-> <<72, 84, 83, 35>>, score |-> 10],             \* "HTS#"
       [name |-> <<77, 65, 88, 84, 79, 82>>, score |-> 10],     \* "MAXTOR"
       [name |-> <<72, 73, 84, 65, 67, 72, 73>>, score |-> 10], \* "HITACHI"
       [name |-> <<83, 69, 65, 71, 65, 84, 69>>, score |-> 10], \* "SEAGATE"
       [name |-> <<83, 65, 77, 83, 85, 78, 71>>, score |-> 10], \* "SAMSUNG"
       [name |-> <<70, 85, 74, 73, 84, 83, 85>>, score |-> 10], \* "FUJITSU"
       [name |-> <<84, 79, 83, 72, 73, 66, 65>>, score |-> 10], \* "TOSHIBA"
       [name |-> <<81, 85, 65, 78, 84, 85, 77>>, score |-> 10]  \* "QUANTUM"
    >>

\* smart.c:435-440
manufacturer_vid ==
    << [vid |-> 1204, score |-> 10],    \* 0x04b4 Cypress
       [vid |-> 1659, score |-> 10],    \* 0x067b Prolific
       [vid |-> 3010, score |-> 10],    \* 0x0bc2 Seagate
       [vid |-> 5421, score |-> 10] >>  \* 0x152d JMicron

\* tolower() in the C locale
ToLower(c) == IF c \in 65..90 THEN c + 32 ELSE c

\* safe_strlen(): 0 for NULL, strlen() otherwise
safe_strlen(str) == IF str = NULL THEN 0 ELSE Len(str)

\* strid[k]: the character, the terminating NUL at k = strlen(strid), and no
\* defined value (oob) past the terminator or through a NULL pointer.
ReadChar(strid, k) ==
    IF strid = NULL \/ k > Len(strid) THEN [c |-> 0, oob |-> TRUE]
    ELSE IF k = Len(strid) THEN [c |-> 0, oob |-> FALSE]
    ELSE [c |-> strid[k + 1], oob |-> FALSE]

\* The character k of a table entry (a string literal), NUL at its end.
NameChar(name, k) == IF k < Len(name) THEN name[k + 1] ELSE 0

\* _strnicmp(strid, name, n) from character k on: whether the strings compare
\* equal, the highest index of strid that was read (-1: none) and whether a
\* read was out of bounds.  The comparison ends at the first difference, at
\* a NUL, or after n characters.
RECURSIVE StrnicmpFrom(_, _, _, _)
StrnicmpFrom(strid, name, n, k) ==
    IF k >= n THEN [eq |-> TRUE, maxRead |-> k - 1, oob |-> FALSE]
    ELSE LET c1 == ReadChar(strid, k)
             c2 == NameChar(name, k)
         IN  IF c1.oob THEN [eq |-> FALSE, maxRead |-> k, oob |-> TRUE]
             ELSE IF ToLower(c1.c) # ToLower(c2)
               THEN [eq |-> FALSE, maxRead |-> k, oob |-> FALSE]
             ELSE IF c1.c = 0 THEN [eq |-> TRUE, maxRead |-> k, oob |-> FALSE]
             ELSE StrnicmpFrom(strid, name, n, k + 1)

strnicmp(strid, name, n) == StrnicmpFrom(strid, name, n, 0)

Max(a, b) == IF a >= b THEN a ELSE b

\* smart.c:494-496: the test of one table entry (&& evaluates strid[mlen]
\* only after _strnicmp returned 0 for a wildcard entry).
EntryTest(strid, name) ==
    LET mlen == Len(name)
        wc == name[mlen] = 35
        cmp == strnicmp(strid, name, mlen - (IF wc THEN 1 ELSE 0))
        digit == ReadChar(strid, mlen)
    IN  IF cmp.oob \/ ~cmp.eq
          THEN [match |-> FALSE, maxRead |-> cmp.maxRead, oob |-> cmp.oob]
        ELSE IF ~wc
          THEN [match |-> TRUE, maxRead |-> cmp.maxRead, oob |-> FALSE]
        ELSE [match |-> ~digit.oob /\ digit.c >= 48 /\ digit.c <= 57,
              maxRead |-> Max(cmp.maxRead, mlen), oob |-> digit.oob]

\* The scan without the test that ends it.
ScanStops_Never(mlen, ilen) == FALSE

\* smart.c:492-493: if (mlen > ilen) break;
ScanStops(mlen, ilen) == mlen > ilen

\* smart.c:490-500: the loop over manufacturer_str from entry i on (entry i
\* of the source is entry i + 1 here): hit is the entry whose score was
\* added (0: none).
RECURSIVE ScanFrom(_, _, _)
ScanFrom(strid, ilen, i) ==
    IF i > Len(manufacturer_str) THEN [hit |-> 0, maxRead |-> -1, oob |-> FALSE]
    ELSE LET name == manufacturer_str[i].name
         IN  IF ScanStops(Len(name), ilen)
               THEN [hit |-> 0, maxRead |-> -1, oob |-> FALSE]
             ELSE LET t == EntryTest(strid, name)
                  IN  IF t.oob THEN [hit |-> 0, maxRead |-> t.maxRead, oob |-> TRUE]
                      ELSE IF t.match
                        THEN [hit |-> i, maxRead |-> t.maxRead, oob |-> FALSE]
                      ELSE LET rest == ScanFrom(strid, ilen, i + 1)
                           IN  [rest EXCEPT !.maxRead = Max(@, t.maxRead)]

\* smart.c:502-507: the score of the first entry of manufacturer_vid equal
\* to vid.
RECURSIVE VidScoreFrom(_, _)
VidScoreFrom(vid, i) ==
    IF i > Len(manufacturer_vid) THEN 0
    ELSE IF vid = manufacturer_vid[i].vid THEN manufacturer_vid[i].score
    ELSE VidScoreFrom(vid, i + 1)

\* smart.c:480-512
IsHDD(drive_type, vid, pid, strid) ==
    LET ilen == safe_strlen(strid)
        scan == ScanFrom(strid, ilen, 1)
    IN  [ score |-> (IF drive_type = DRIVE_FIXED THEN 3 ELSE 0)
                    + (IF scan.hit # 0 THEN manufacturer_str[scan.hit].score ELSE 0)
                    + VidScoreFrom(vid, 1),
          hit |-> scan.hit, maxRead |-> scan.maxRead, oob |-> scan.oob ]

\* The model strings: every string of at most MaxStrLen characters over
\* S, T, t, M, 1, A, the strings below, and NULL.
MaxStrLen == 4
ScorerAlphabet == {83, 84, 116, 77, 49, 65}

RECURSIVE StringsUpTo(_)
StringsUpTo(n) ==
    IF n = 0 THEN { <<>> }
    ELSE LET shorter == StringsUpTo(n - 1)
         IN  shorter \cup { Append(s, c) : s \in shorter, c \in ScorerAlphabet }

ST1000DM003 == <<83, 84, 49, 48, 48, 48, 68, 77, 48, 48, 51>>
CruzerBlade == <<67, 114, 117, 122, 101, 114, 32, 66, 108, 97, 100, 101>>
SamsungHD103SJ == <<83, 65, 77, 83, 85, 78, 71, 32, 72, 68, 49, 48, 51, 83, 74>>

ScorerStrings ==
    StringsUpTo(MaxStrLen) \cup
    { NULL, ST1000DM003, CruzerBlade, SamsungHD103SJ,
      <<83, 84, 77, 49, 49>>,                     \* "STM11"
      <<119, 100, 99, 32, 120>>,                  \* "wdc x"
      <<104, 116, 115, 53, 120>>,                 \* "hts5x"
      <<72, 80, 32>>,                             \* "HP "
      <<77, 97, 120, 116, 111, 114, 32, 54>> }    \* "Maxtor 6"

ScorerDriveTypes == {DRIVE_REMOVABLE, DRIVE_FIXED}
ScorerVids == {0, 2385, 3010}    \* 0x0000, 0x0951, 0x0bc2
ScorerPids == {0, 21863}

\* The results a call with an out-of-bounds read may produce: any score, or
\* no score at all (-1).
AnyScore == {-1, 0, 3, 10, 13, 20, 23}

InitScorer ==
    /\ \E dt \in ScorerDriveTypes, v \in ScorerVids, p \in ScorerPids,
          str \in ScorerStrings :
          scorer = [ pc |-> "call", drive_type |-> dt, vid |-> v, pid |-> p,
                     strid |-> str, score |-> 0, hit |-> 0, maxRead |-> -1,
                     oob |-> FALSE ]
    /\ resolver = Idle /\ transport = Idle /\ encoder = Idle /\ identify = Idle

ScorerCall ==
    /\ scorer.pc = "call"
    /\ LET res == IsHDD(scorer.drive_type, scorer.vid, scorer.pid, scorer.strid)
       IN  \E any \in (IF res.oob THEN AnyScore ELSE {res.score}) :
              scorer' = [scorer EXCEPT
                            !.pc = "done", !.score = any, !.hit = res.hit,
                            !.maxRead = res.maxRead, !.oob = res.oob]
    /\ UNCHANGED <<resolver, transport, encoder, identify>>

NextScorer == ScorerCall

SpecScorer == InitScorer /\ [][NextScorer]_vars

\* Whether s begins, case-insensitively, with the characters of prefix.
C6_BeginsWith(s, prefix) ==
    /\ Len(s) >= Len(prefix)
    /\ \A k \in 1..Len(prefix) : ToLower(s[k]) = ToLower(prefix[k])

\* The match of the claim: an entry ending in '#' matches a string that
\* begins with the entry's literal part followed at once by a digit; any
\* other entry matches a string that begins with the whole entry.
C6_Matches(s, name) ==
    /\ s # NULL
    /\ IF name[Len(name)] = 35
         THEN LET lit == SubSeq(name, 1, Len(name) - 1)
              IN  /\ C6_BeginsWith(s, lit)
                  /\ Len(s) > Len(lit)
                  /\ s[Len(lit) + 1] \in 48..57
         ELSE C6_BeginsWith(s, name)

\* C6: the entry whose score IsHDD adds is one the string matches in the
\* sense above, and a string that matches an entry gets the score of that
\* entry or of an earlier one ("ST3" matches "ST#", "STA5" does not).
C6_WildcardMatch ==
    scorer.pc = "done" =>
        /\ (scorer.hit # 0 =>
                C6_Matches(scorer.strid, manufacturer_str[scorer.hit].name))
        /\ \A k \in 1..Len(manufacturer_str) :
                C6_Matches(scorer.strid, manufacturer_str[k].name) =>
                    (scorer.hit # 0 /\ scorer.hit <= k)

\* C7: the score is 3 for a fixed drive, plus 10 if the string matches at
\* least one table entry, plus 10 if vid is in the vendor table, each counted
\* once and whatever pid is; hence one of 0, 3, 10, 13, 20, 23, with 23, 0 and
\* 13 for the three examples.
C7_ScoreSum ==
    scorer.pc = "done" =>
        /\ scorer.score =
              (IF scorer.drive_type = DRIVE_FIXED THEN 3 ELSE 0)
              + (IF \E k \in 1..Len(manufacturer_str) :
                        C6_Matches(scorer.strid, manufacturer_str[k].name)
                   THEN 10 ELSE 0)
              + (IF scorer.vid \in {1204, 1659, 3010, 5421} THEN 10 ELSE 0)
        /\ scorer.score \in {0, 3, 10, 13, 20, 23}
        /\ ((scorer.drive_type = DRIVE_FIXED /\ scorer.vid = 3010
                /\ scorer.strid = ST1000DM003) => scorer.score = 23)
        /\ ((scorer.drive_type = DRIVE_REMOVABLE /\ scorer.vid = 2385
                /\ scorer.strid = CruzerBlade) => scorer.score = 0)
        /\ ((scorer.drive_type = DRIVE_FIXED /\ scorer.vid = 0
                /\ scorer.strid = SamsungHD103SJ) => scorer.score = 13)

\* C8: no index read from the model string lies past its terminator (none at
\* all is read through a NULL pointer), and a string of fewer than 3
\* characters does not get the string score.
C8_NoOutOfBoundsRead ==
    scorer.pc = "done" =>
        /\ ~scorer.oob
        /\ scorer.maxRead <= safe_strlen(scorer.strid)
        /\ (scorer.strid = NULL => scorer.maxRead = -1)
        /\ (safe_strlen(scorer.strid) < 3 =>
                /\ scorer.hit = 0
                /\ scorer.score = (IF scorer.drive_type = DRIVE_FIXED THEN 3 ELSE 0)
                                   + (IF scorer.vid = 3010 THEN 10 ELSE 0))

\* A three-character string that begins with "ST": the wildcard test has read
\* the terminator, the last position of the string.
C8_Witness ==
    /\ scorer.pc = "done"
    /\ scorer.strid # NULL
    /\ Len(scorer.strid) = 3
    /\ scorer.maxRead = 3
    /\ ~scorer.oob

====
